---- MODULE Spec2Model ----
(***************************************************************************)
(* The parity crate (src/lib.rs): trait Parity with is_even / is_odd,      *)
(* implemented by impl_parity! for the integer types and by                *)
(* impl_float_parity! for f32 and f64.                                     *)
(*                                                                         *)
(* A value is its type and its bit pattern.  A bit pattern is the set of   *)
(* the positions of its 1 bits (position 0 is the least significant bit).  *)
(***************************************************************************)
EXTENDS Integers, FiniteSets

VARIABLES self, even, odd

vars == <<self, even, odd>>

(***************************************************************************)
(* Bounds of the inputs.                                                   *)
(***************************************************************************)
\* integers: the low LowBits bits take every pattern
LowBits == 6
\* floats: the 1 bits of the fraction field are a run of at most MaxRun bits
MaxRun == 3
\* floats: exponents from ExpMargin below 2^0 to ExpMargin above 2^fbits
ExpMargin == 1

Min(a, b) == IF a < b THEN a ELSE b

(***************************************************************************)
(* The types of lines 81-83.                                               *)
(***************************************************************************)
SignedInts == {"i8", "i16", "i32", "i64", "i128", "isize"}

UnsignedInts == {"u8", "u16", "u32", "u64", "u128", "usize"}

Floats == {"f32", "f64"}

\* isize and usize have the target's pointer width
PointerWidths == {16, 32, 64}

Widths(ty) ==
  CASE ty \in {"i8", "u8"} -> {8}
    [] ty \in {"i16", "u16"} -> {16}
    [] ty \in {"i32", "u32", "f32"} -> {32}
    [] ty \in {"i64", "u64", "f64"} -> {64}
    [] ty \in {"i128", "u128"} -> {128}
    [] ty \in {"isize", "usize"} -> PointerWidths

\* the unsigned type of a signed one and back
Counterpart(ty) ==
  CASE ty = "i8" -> "u8" [] ty = "u8" -> "i8"
    [] ty = "i16" -> "u16" [] ty = "u16" -> "i16"
    [] ty = "i32" -> "u32" [] ty = "u32" -> "i32"
    [] ty = "i64" -> "u64" [] ty = "u64" -> "i64"
    [] ty = "i128" -> "u128" [] ty = "u128" -> "i128"
    [] ty = "isize" -> "usize" [] ty = "usize" -> "isize"

(***************************************************************************)
(* Bit patterns.                                                           *)
(***************************************************************************)
RECURSIVE Pow2(_)
Pow2(n) == IF n = 0 THEN 1 ELSE 2 * Pow2(n - 1)

\* the pattern of a literal n >= 0
RECURSIVE Lit(_)
Lit(n) ==
  IF n = 0 THEN {}
  ELSE (IF n % 2 = 1 THEN {0} ELSE {}) \cup {i + 1 : i \in Lit(n \div 2)}

Shl(bits, k) == {i + k : i \in bits}

BitAnd(a, b) == a \cap b

(***************************************************************************)
(* impl_parity! (lines 16-48): the integer types.  The literals 1 and 0    *)
(* have the type of *self; & is the bitwise and of the two patterns.       *)
(***************************************************************************)
\* a slip: the same test as is_odd
is_even_as_odd(ty, w, bits) == BitAnd(bits, Lit(1)) /= Lit(0)

impl_parity_is_even(ty, w, bits) == BitAnd(bits, Lit(1)) = Lit(0)

\* a slip: the remainder test, which is -1 for a negative odd value
is_odd_by_rem(ty, w, bits) ==
  LET rem == IF 0 \notin bits THEN 0
             ELSE IF ty \in SignedInts /\ (w - 1) \in bits THEN -1
             ELSE 1
  IN  rem = 1

\* a slip: the same test as is_even
is_odd_as_even(ty, w, bits) == BitAnd(bits, Lit(1)) = Lit(0)

impl_parity_is_odd(ty, w, bits) == BitAnd(bits, Lit(1)) /= Lit(0)

(***************************************************************************)
(* The integer a pattern stands for: unsigned binary, or two's complement  *)
(* (the top bit weighs -2^(w-1)).  IntValue is exact and needs w <= 16;    *)
(* IntValueMod is the same sum modulo m, for every width.                  *)
(***************************************************************************)
RECURSIVE Pow2Mod(_, _)
Pow2Mod(n, m) ==
  IF n = 0 THEN 1 % m
  ELSE IF n % 2 = 0
  THEN LET h == Pow2Mod(n \div 2, m) IN (h * h) % m
  ELSE (2 * Pow2Mod(n - 1, m)) % m

RECURSIVE SumPow2(_)
SumPow2(bits) ==
  IF bits = {} THEN 0
  ELSE LET i == CHOOSE k \in bits : TRUE
       IN  Pow2(i) + SumPow2(bits \ {i})

\* SUM {2^i : i \in bits, lo <= i <= hi} modulo m
RECURSIVE SumPow2Mod(_, _, _, _)
SumPow2Mod(bits, lo, hi, m) ==
  IF lo > hi THEN 0
  ELSE IF lo = hi THEN (IF lo \in bits THEN Pow2Mod(lo, m) ELSE 0)
  ELSE LET mid == (lo + hi) \div 2
       IN  (SumPow2Mod(bits, lo, mid, m) + SumPow2Mod(bits, mid + 1, hi, m)) % m

IntValue(ty, w, bits) ==
  IF ty \in SignedInts /\ (w - 1) \in bits
  THEN SumPow2(bits \ {w - 1}) - Pow2(w - 1)
  ELSE SumPow2(bits)

IntValueMod(ty, w, bits, m) ==
  IF ty \in SignedInts /\ (w - 1) \in bits
  THEN (SumPow2Mod(bits, 0, w - 2, m) - Pow2Mod(w - 1, m)) % m
  ELSE SumPow2Mod(bits, 0, w - 1, m)

\* T::MAX and T::MIN
MaxBits(ty, w) == IF ty \in SignedInts THEN 0 .. (w - 2) ELSE 0 .. (w - 1)

MinBits(ty, w) == IF ty \in SignedInts THEN {w - 1} ELSE {}

(***************************************************************************)
(* f32 and f64: IEEE 754 binary32 and binary64.  A pattern is, from the    *)
(* top, the sign bit, the exponent field and the fraction field.           *)
(***************************************************************************)
ExpBits(ty) == IF ty = "f32" THEN 8 ELSE 11

FracBits(ty) == IF ty = "f32" THEN 23 ELSE 52

Bias(ty) == Pow2(ExpBits(ty) - 1) - 1

\* the exponent field of infinities and NaNs
ExpAllOnes(ty) == Pow2(ExpBits(ty)) - 1

FracField(ty, bits) == {i \in bits : i < FracBits(ty)}

ExpField(ty, bits) ==
  SumPow2({i - FracBits(ty) : i \in {k \in bits : k >= FracBits(ty)
                                              /\ k < FracBits(ty) + ExpBits(ty)}})

SignBit(ty, bits) == (FracBits(ty) + ExpBits(ty)) \in bits

(***************************************************************************)
(* The number a pattern stands for: a NaN, an infinity, or the finite      *)
(* number (-1)^neg * SUM {2^k : k \in w}; w is the set of the binary       *)
(* weights of its significand's 1 bits, and w = {} is a zero.              *)
(***************************************************************************)
Decode(ty, bits) ==
  LET e == ExpField(ty, bits)
      f == FracField(ty, bits)
      neg == SignBit(ty, bits)
  IN  IF e = ExpAllOnes(ty)
      THEN [kind |-> IF f = {} THEN "inf" ELSE "nan", neg |-> neg, w |-> {}]
      ELSE IF e = 0
      THEN [kind |-> "fin", neg |-> neg,
            w |-> {i + 1 - Bias(ty) - FracBits(ty) : i \in f}]
      ELSE [kind |-> "fin", neg |-> neg,
            w |-> {i + e - Bias(ty) - FracBits(ty) : i \in f} \cup {e - Bias(ty)}]

NaN == [kind |-> "nan", neg |-> FALSE, w |-> {}]

\* the literals 0.0 and 2.0
FloatZero == [kind |-> "fin", neg |-> FALSE, w |-> {}]

FloatTwo == [kind |-> "fin", neg |-> FALSE, w |-> {1}]

\* f32::trunc, f64::trunc: the integer part, rounding towards zero
trunc(x) ==
  IF x.kind = "fin"
  THEN [kind |-> "fin", neg |-> x.neg, w |-> {k \in x.w : k >= 0}]
  ELSE x

\* x - y, for a y that is NaN, infinite, or of x's sign with its 1 bits among
\* x's (as x.trunc() is): the difference is exact, and x - x is +0.0
Sub(x, y) ==
  IF x.kind = "nan" \/ y.kind = "nan" THEN NaN
  ELSE IF x.kind = "inf" /\ y.kind = "inf"
  THEN (IF x.neg = y.neg THEN NaN ELSE x)
  ELSE IF x.kind = "inf" THEN x
  ELSE IF y.kind = "inf" THEN [kind |-> "inf", neg |-> ~y.neg, w |-> {}]
  ELSE LET d == x.w \ y.w
       IN  [kind |-> "fin", neg |-> (d /= {} /\ x.neg), w |-> d]

\* a slip: the fractional part as modf gives it, +-0.0 for an infinity
fract_modf(x) ==
  IF x.kind = "inf" THEN [kind |-> "fin", neg |-> x.neg, w |-> {}]
  ELSE Sub(x, trunc(x))

\* f32::fract, f64::fract: self - self.trunc()
fract(x) == Sub(x, trunc(x))

\* x % y, for a y that is NaN, infinite, zero or a power of two: the
\* remainder of the division truncated towards zero, with the sign of x
Rem(x, y) ==
  IF x.kind /= "fin" \/ y.kind = "nan" \/ (y.kind = "fin" /\ y.w = {}) THEN NaN
  ELSE IF y.kind = "inf" THEN x
  ELSE LET j == CHOOSE k \in y.w : TRUE
       IN  [kind |-> "fin", neg |-> x.neg, w |-> {k \in x.w : k < j}]

\* a slip: comparing the representations, which tells -0.0 from 0.0
SameRepr(x, y) == x.kind /= "nan" /\ y.kind /= "nan" /\ x = y

\* x == y: false for a NaN, true for the two zeros
Eq(x, y) ==
  /\ x.kind /= "nan"
  /\ y.kind /= "nan"
  /\ x.kind = y.kind
  /\ x.w = y.w
  /\ (x.neg = y.neg \/ (x.kind = "fin" /\ x.w = {}))

(***************************************************************************)
(* impl_float_parity! (lines 50-79).                                       *)
(***************************************************************************)
\* a slip: the remainder test left out
is_even_fract_only(ty, bits) ==
  LET x == Decode(ty, bits) IN Eq(fract(x), FloatZero)

impl_float_parity_is_even(ty, bits) ==
  LET x == Decode(ty, bits)
  IN  Eq(fract(x), FloatZero) /\ Eq(Rem(x, FloatTwo), FloatZero)

\* a slip: the fractional-part test left out
is_odd_rem_only(ty, bits) ==
  LET x == Decode(ty, bits) IN ~Eq(Rem(x, FloatTwo), FloatZero)

\* a slip: the remainder compared with 1.0, which it is not for -1.0
is_odd_rem_is_one(ty, bits) ==
  LET x == Decode(ty, bits)
  IN  /\ Eq(fract(x), FloatZero)
      /\ Eq(Rem(x, FloatTwo), [kind |-> "fin", neg |-> FALSE, w |-> {0}])

impl_float_parity_is_odd(ty, bits) ==
  LET x == Decode(ty, bits)
  IN  Eq(fract(x), FloatZero) /\ ~Eq(Rem(x, FloatTwo), FloatZero)

(***************************************************************************)
(* The trait (lines 9-14), dispatched on the type of self.                 *)
(***************************************************************************)
Parity_is_even(v) ==
  IF v.ty \in Floats
  THEN impl_float_parity_is_even(v.ty, v.bits)
  ELSE impl_parity_is_even(v.ty, v.width, v.bits)

Parity_is_odd(v) ==
  IF v.ty \in Floats
  THEN impl_float_parity_is_odd(v.ty, v.bits)
  ELSE impl_parity_is_odd(v.ty, v.width, v.bits)

(***************************************************************************)
(* The values the queries are called on.                                   *)
(***************************************************************************)
\* integers: every pattern of the low bits, the bits between them and the
\* top bit all 0 or all 1, the top bit 0 or 1.  This holds 0, 1, 2, 3, -1,
\* -2, -3, T::MIN, T::MAX and their neighbours, and every i8 and u8.
IntPatterns(w) ==
  LET n == Min(LowBits, w - 1)
  IN  {low \cup mid \cup top : low \in SUBSET (0 .. (n - 1)),
                               mid \in {{}, n .. (w - 2)},
                               top \in {{}, {w - 1}}}

\* the fraction fields: no 1 bit, or a run of at most MaxRun 1 bits anywhere
\* in the field
FracFields(ty) ==
  {{}} \cup {i .. Min(i + n, FracBits(ty) - 1) :
               i \in 0 .. (FracBits(ty) - 1), n \in 0 .. (MaxRun - 1)}

\* the exponent fields: zero and the subnormals (0), the least normal
\* exponent, the greatest, infinities and NaNs, and every exponent at which
\* the significand's bits straddle the weights 2^0 and 2^1
ExpFields(ty) ==
  {0, 1, ExpAllOnes(ty) - 1, ExpAllOnes(ty)}
    \cup ((Bias(ty) - ExpMargin) .. (Bias(ty) + FracBits(ty) + 1 + ExpMargin))

\* 0.00000001 (tests::floats) and 3.5 (the doc test of is_odd)
TestPatterns(ty) ==
  IF ty = "f32"
  THEN {Lit(52343) \cup Shl(Lit(12843), 16), Shl(Lit(16480), 16)}
  ELSE {Lit(35898) \cup Shl(Lit(57904), 16) \cup Shl(Lit(31118), 32)
          \cup Shl(Lit(15941), 48),
        Shl(Lit(16396), 48)}

\* the pattern of a sign bit s, an exponent field e and a fraction field f
FloatPattern(ty, s, e, f) == f \cup Shl(Lit(e), FracBits(ty)) \cup s

(***************************************************************************)
(* A caller holds a value and asks the two queries, in either order.       *)
(* even and odd hold what each returned: {} before the call, then the      *)
(* boolean returned.                                                       *)
(***************************************************************************)
InitInteger ==
  \E ty \in SignedInts \cup UnsignedInts :
    \E w \in Widths(ty) :
      \E b \in IntPatterns(w) :
        self = [ty |-> ty, width |-> w, bits |-> b]

InitFloat ==
  \E ty \in Floats :
    \E w \in Widths(ty) :
      \/ \E f \in FracFields(ty) :
           \E e \in ExpFields(ty) :
             \E s \in {{}, {FracBits(ty) + ExpBits(ty)}} :
               self = [ty |-> ty, width |-> w, bits |-> FloatPattern(ty, s, e, f)]
      \/ \E b \in TestPatterns(ty) :
           self = [ty |-> ty, width |-> w, bits |-> b]

Init ==
  /\ InitInteger \/ InitFloat
  /\ even = {}
  /\ odd = {}

is_even ==
  /\ even = {}
  /\ even' = {Parity_is_even(self)}
  /\ UNCHANGED <<self, odd>>

is_odd ==
  /\ odd = {}
  /\ odd' = {Parity_is_odd(self)}
  /\ UNCHANGED <<self, even>>

Next == is_even \/ is_odd

Spec == Init /\ [][Next]_vars

(***************************************************************************)
(* What the properties speak of.                                           *)
(***************************************************************************)
IsInteger == self.ty \notin Floats

IsFloat == self.ty \in Floats

BothCalled == even /= {} /\ odd /= {}

\* the number a float self stands for
X == Decode(self.ty, self.bits)

\* x is a finite number with no bit of its significand below 2^0
IntegerValued(x) == x.kind = "fin" /\ \A k \in x.w : k >= 0

\* x is a finite number with a bit of its significand below 2^0
HasFraction(x) == x.kind = "fin" /\ \E k \in x.w : k < 0

\* x / 2, for a finite x
Half(x) == [x EXCEPT !.w = {k - 1 : k \in x.w}]

\* an integer is divisible by 2 when its half is an integer
DivisibleByTwo(x) == IntegerValued(x) /\ IntegerValued(Half(x))

\* C1: for every integer type and value, exactly one of is_even and is_odd
\* is true: is_even(v) = ~is_odd(v).
C1_IntegerComplement ==
  (IsInteger /\ BothCalled) => \A e \in even, o \in odd : e = ~o

C1_Witness ==
  /\ self.ty = "u128"
  /\ self.bits = MaxBits("u128", 128)
  /\ even = {FALSE}
  /\ odd = {TRUE}

\* C2: for every integer type and value, is_even is true iff the integer the
\* pattern stands for is divisible by 2 and is_odd iff it is not, negative
\* values included; the signed and the unsigned reading of a pattern have
\* the same parity, in the integers and in the code.
C2_IntegerParity ==
  IsInteger =>
    LET r == IntValueMod(self.ty, self.width, self.bits, 2)
        c == Counterpart(self.ty)
    IN  /\ even /= {} => even = {r = 0}
        /\ odd /= {} => odd = {r = 1}
        /\ self.width <= 16 =>
             r = IntValue(self.ty, self.width, self.bits) % 2
        /\ r = IntValueMod(c, self.width, self.bits, 2)
        /\ even /= {} => even = {impl_parity_is_even(c, self.width, self.bits)}
        /\ odd /= {} => odd = {impl_parity_is_odd(c, self.width, self.bits)}

C2_Witness ==
  /\ self.ty = "i16"
  /\ IntValue("i16", 16, self.bits) = -3
  /\ even = {FALSE}
  /\ odd = {TRUE}

\* C3: for every float, is_even is true iff the value has no fractional part
\* and is divisible by 2, and is_odd is true iff it has no fractional part
\* and is not divisible by 2.
C3_FloatParity ==
  IsFloat =>
    /\ even /= {} => even = {IntegerValued(X) /\ DivisibleByTwo(X)}
    /\ odd /= {} => odd = {IntegerValued(X) /\ ~DivisibleByTwo(X)}

C3_Witness ==
  /\ self.ty = "f32"
  /\ X = [kind |-> "fin", neg |-> FALSE, w |-> {0, 1}]
  /\ even = {FALSE}
  /\ odd = {TRUE}

\* C4: for every float, NaN, infinities, zeros and subnormals included,
\* is_even and is_odd are never both true (both may be false).
C4_FloatNeverBoth ==
  (IsFloat /\ BothCalled) => ~(even = {TRUE} /\ odd = {TRUE})

\* 2.5: both false
C4_Witness ==
  /\ self.ty = "f64"
  /\ X = [kind |-> "fin", neg |-> FALSE, w |-> {-1, 1}]
  /\ even = {FALSE}
  /\ odd = {FALSE}

\* C5: for every float with a nonzero fractional part, of either sign and
\* however small, is_even and is_odd are both false.
C5_FractionNeither ==
  (IsFloat /\ HasFraction(X)) =>
    /\ even /= {} => even = {FALSE}
    /\ odd /= {} => odd = {FALSE}

\* 0.00000001
C5_Witness ==
  /\ self.ty = "f64"
  /\ self.bits \in TestPatterns("f64")
  /\ X.w /= {}
  /\ \A k \in X.w : k < 0
  /\ even = {FALSE}
  /\ odd = {FALSE}

\* C6: for a NaN of f32 or f64, is_even and is_odd both return false.
C6_NaNNeither ==
  (IsFloat /\ X.kind = "nan") =>
    /\ even /= {} => even = {FALSE}
    /\ odd /= {} => odd = {FALSE}

C6_Witness ==
  /\ self.ty = "f32"
  /\ X.kind = "nan"
  /\ even = {FALSE}
  /\ odd = {FALSE}

\* C7: for the two infinities of f32 and f64, is_even and is_odd both return
\* false: the test self.fract() == 0.0 fails.
C7_InfinityNeither ==
  (IsFloat /\ X.kind = "inf") =>
    /\ ~Eq(fract(X), FloatZero)
    /\ even /= {} => even = {FALSE}
    /\ odd /= {} => odd = {FALSE}

C7_Witness ==
  /\ self.ty = "f64"
  /\ X.kind = "inf"
  /\ X.neg
  /\ even = {FALSE}
  /\ odd = {FALSE}

\* C8: for every float, is_even and is_odd are both false only when the
\* value is a NaN, an infinity or has a fractional part; every finite
\* integer-valued float, of either sign and any magnitude, has exactly one
\* of the two true.
C8_NeitherOnlyNonInteger ==
  (IsFloat /\ BothCalled) =>
    /\ (even = {FALSE} /\ odd = {FALSE}) =>
         (X.kind = "nan" \/ X.kind = "inf" \/ HasFraction(X))
    /\ IntegerValued(X) => \A e \in even, o \in odd : e = ~o

\* the greatest finite exponent, negative
C8_Witness ==
  /\ self.ty = "f64"
  /\ ExpField("f64", self.bits) = ExpAllOnes("f64") - 1
  /\ X.neg
  /\ even = {TRUE}
  /\ odd = {FALSE}

\* C9: -0.0 of f32 and f64 is even and not odd, as 0.0 is.
C9_NegativeZeroEven ==
  (IsFloat /\ X = [kind |-> "fin", neg |-> TRUE, w |-> {}]) =>
    LET zero == [self EXCEPT !.bits = {}]
    IN  /\ even /= {} => even = {TRUE} /\ Parity_is_even(zero)
        /\ odd /= {} => odd = {FALSE} /\ ~Parity_is_odd(zero)

C9_Witness ==
  /\ self.ty = "f32"
  /\ self.bits = {31}
  /\ even = {TRUE}
  /\ odd = {FALSE}

\* C10: for every integer type, T::MAX (2^w - 1 unsigned, 2^(w-1) - 1
\* signed) is odd and not even, T::MIN (0 unsigned, -2^(w-1) signed) is even
\* and not odd, and 0 is even.
C10_Bounds ==
  IsInteger =>
    LET max == self.bits = MaxBits(self.ty, self.width)
        min == self.bits = MinBits(self.ty, self.width)
        signed == self.ty \in SignedInts
        v == IntValue(self.ty, self.width, self.bits)
    IN  /\ (max /\ even /= {}) => even = {FALSE}
        /\ (max /\ odd /= {}) => odd = {TRUE}
        /\ (min /\ even /= {}) => even = {TRUE}
        /\ (min /\ odd /= {}) => odd = {FALSE}
        /\ (self.bits = {} /\ even /= {}) => even = {TRUE}
        /\ (max /\ self.width <= 16) =>
             v = (IF signed THEN Pow2(self.width - 1) ELSE Pow2(self.width)) - 1
        /\ (min /\ self.width <= 16) =>
             v = (IF signed THEN 0 - Pow2(self.width - 1) ELSE 0)

C10_Witness ==
  /\ self.ty = "isize"
  /\ self.width = 64
  /\ self.bits = MinBits("isize", 64)
  /\ even = {TRUE}
  /\ odd = {FALSE}

====
